---- MODULE Spec2Model ----
(***************************************************************************)
(* Push Box Game (src/main.rs): the Game resource (grid, player position,  *)
(* covered cell type, level, status, pending action, redraw flag), the     *)
(* shared StepIntervalTimer, and the three per-frame systems menu_update,  *)
(* game_update and keyboard_input that the Update schedule runs once per   *)
(* frame in an order the code leaves unspecified.                          *)
(***************************************************************************)
EXTENDS Integers, Sequences, FiniteSets, TLC

VARIABLES game, timer, maphandle, loaded, delta, order, pc, since, last, hist

vars == <<game, timer, maphandle, loaded, delta, order, pc, since, last, hist>>

----------------------------------------------------------------------------
(* Program constants                                                       *)

\* side of the square grid (20 in the program; reduced here)
MAP_SIZE == 4
\* number of levels (50 in the program; reduced here)
GAME_LEVEL_COUNT == 3
\* milliseconds of the step interval timer
INPUT_INTERVAL == 200

BLOCK_TYPE_BLANK == 0
BLOCK_TYPE_WALL == 1
BLOCK_TYPE_GROUND == 2
BLOCK_TYPE_BOX == 3
BLOCK_TYPE_AIM == 4
BLOCK_TYPE_PLAYER_DOWN == 5
BLOCK_TYPE_PLAYER_RIGHT == 6
BLOCK_TYPE_PLAYER_LEFT == 7
BLOCK_TYPE_PLAYER_UP == 8
BLOCK_TYPE_BOX_AIM == 9

\* the seven key codes of BUTTON_KEY, in button order
BUTTON_KEY == <<"KeyP", "KeyN", "KeyR", "ArrowUp", "ArrowLeft", "ArrowRight", "ArrowDown">>

KeyCodes == {BUTTON_KEY[i] : i \in 1..7}

ArrowKeys == {"ArrowUp", "ArrowDown", "ArrowLeft", "ArrowRight"}

\* Option<KeyCode>::None
None == "None"

\* frame times (time.delta(), in milliseconds) the scheduler may deliver
Deltas == {100, 200}

\* the three systems of the Update schedule
Systems == {"menu_update", "game_update", "keyboard_input"}

\* the orders in which the schedule may run them (no ordering is declared
\* between them; all three write the Game resource, so they never overlap)
Orders == {o \in [1..3 -> Systems] : \A s \in Systems : \E i \in 1..3 : o[i] = s}

----------------------------------------------------------------------------
(* Vec2 and the grid                                                       *)

Vec2(a, b) == [x |-> a, y |-> b]

add(p, q) == Vec2(p.x + q.x, p.y + q.y)

Idx == 0..(MAP_SIZE - 1)

clamp(v, lo, hi) == IF v < lo THEN lo ELSE IF v > hi THEN hi ELSE v

\* the bounds test of step(): both coordinates equal their clamp to 0..MAP_SIZE-1
in_range(p) ==
    ~(clamp(p.x, 0, MAP_SIZE - 1) # p.x \/ clamp(p.y, 0, MAP_SIZE - 1) # p.y)

at(map, p) == map[p.x][p.y]

put(map, p, v) == [map EXCEPT ![p.x][p.y] = v]

----------------------------------------------------------------------------
(* Level files and MapAssetsLoader::load                                   *)

\* maps/1.map: two boxes, one already on a target, and two targets
RoomA ==
    << <<"1", "1", "4", "1">>,
       <<"5", "3", "9", "2">>,
       <<"2", "2", "2", " ">> >>

\* maps/2.map: one box, its target, a spare target under no box, and a
\* stray left-facing player marker besides the start cell
RoomB ==
    << <<"4", "3", "5">>,
       <<"7", "4", "2">> >>

\* the other maps: two boxes in a row, each with a target of its own
RoomC ==
    << <<"1", "4", "1", "1">>,
       <<"5", "3", "3", "4">>,
       <<"2", "2", "1", "1">> >>

\* the character of maps/<level>.map at text row i, column j (both from 0):
\* RoomA and RoomC sit in the bottom-left corner of the text, RoomB in the
\* top-right corner, and the rest is wall
Glyph(level, i, j) ==
    IF level = 1
    THEN IF i >= MAP_SIZE - 3 /\ j <= 3 THEN RoomA[i - (MAP_SIZE - 3) + 1][j + 1] ELSE "1"
    ELSE IF level = 2
    THEN IF i <= 1 /\ j >= MAP_SIZE - 3 THEN RoomB[i + 1][j - (MAP_SIZE - 3) + 1] ELSE "1"
    ELSE IF i >= MAP_SIZE - 3 /\ j <= 3 THEN RoomC[i - (MAP_SIZE - 3) + 1][j + 1] ELSE "1"

\* the file's text: MAP_SIZE lines of MAP_SIZE characters, each ended by "\n"
MapText(level) ==
    [k \in 1..(MAP_SIZE * (MAP_SIZE + 1)) |->
        LET i == (k - 1) \div (MAP_SIZE + 1)
            j == (k - 1) % (MAP_SIZE + 1)
        IN  IF j = MAP_SIZE THEN "\n" ELSE Glyph(level, i, j)]

\* str::parse::<usize>().unwrap_or(0) on one character
parse_or_0(ch) ==
    CASE ch = "0" -> 0 [] ch = "1" -> 1 [] ch = "2" -> 2 [] ch = "3" -> 3
      [] ch = "4" -> 4 [] ch = "5" -> 5 [] ch = "6" -> 6 [] ch = "7" -> 7
      [] ch = "8" -> 8 [] ch = "9" -> 9 [] OTHER -> 0

\* value[j][MAP_SIZE - i - 1] = digit of text[i * (MAP_SIZE + 1) + j]
load_value(text) ==
    [xx \in Idx |-> [yy \in Idx |->
        parse_or_0(text[(MAP_SIZE - 1 - yy) * (MAP_SIZE + 1) + xx + 1])]]

\* the loops of load() over i then j: the last cell holding PLAYER_DOWN
\* gives the position, Vec2::ZERO when there is none
RECURSIVE load_position(_, _, _)
load_position(value, k, pos) ==
    IF k = MAP_SIZE * MAP_SIZE THEN pos
    ELSE LET i == k \div MAP_SIZE
             j == k % MAP_SIZE
         IN  load_position(value, k + 1,
                 IF value[j][MAP_SIZE - i - 1] = BLOCK_TYPE_PLAYER_DOWN
                 THEN Vec2(j, MAP_SIZE - i - 1) ELSE pos)

\* the MapAsset that MapAssetsLoader::load builds from maps/<level>.map
MapAsset(level) ==
    LET value == load_value(MapText(level))
    IN  [value |-> value, position |-> load_position(value, 0, Vec2(0, 0))]

----------------------------------------------------------------------------
(* StepIntervalTimer: Timer::from_seconds(INPUT_INTERVAL / 1000, Once)     *)

timer_new == [elapsed |-> 0, finished |-> FALSE]

\* Timer::tick in TimerMode::Once: a finished timer stays finished; otherwise
\* the elapsed time grows by the frame time, capped at the duration
timer_tick(t, d) ==
    IF t.finished THEN t
    ELSE LET e == t.elapsed + d
         IN  IF e >= INPUT_INTERVAL
             THEN [elapsed |-> INPUT_INTERVAL, finished |-> TRUE]
             ELSE [elapsed |-> e, finished |-> FALSE]

timer_reset(t) == [elapsed |-> 0, finished |-> FALSE]

----------------------------------------------------------------------------
(* impl Default for Game, impl Game                                        *)

game_default ==
    [update |-> TRUE,
     level |-> 1,
     status |-> "StartPlaying",
     map |-> [xx \in Idx |-> [yy \in Idx |-> 0]],
     position |-> Vec2(0, 0),
     position_type |-> BLOCK_TYPE_GROUND,
     action |-> None]

get_player_type(action) ==
    CASE action.x = 1 /\ action.y = 0 -> BLOCK_TYPE_PLAYER_LEFT
      [] action.x = -1 /\ action.y = 0 -> BLOCK_TYPE_PLAYER_RIGHT
      [] action.x = 0 /\ action.y = 1 -> BLOCK_TYPE_PLAYER_UP
      [] action.x = 0 /\ action.y = -1 -> BLOCK_TYPE_PLAYER_DOWN
      [] OTHER -> BLOCK_TYPE_PLAYER_UP

\* a step() that turns the player to face the edge it cannot cross
step_out_of_range_turns(self, action) ==
    [self EXCEPT !.map = put(self.map, self.position, get_player_type(action))]

\* the early return of step() when next_position is outside the grid
step_out_of_range(self, action) == self

\* an entry test that also lets the player onto blank cells
can_enter_blank(c) ==
    c = BLOCK_TYPE_GROUND \/ c = BLOCK_TYPE_AIM \/ c = BLOCK_TYPE_BLANK

\* the test of the first block of step(): the cell entered is ground or aim
can_enter(c) == c = BLOCK_TYPE_GROUND \/ c = BLOCK_TYPE_AIM

\* the test of the second block of step(): the cell entered holds a box
is_box(c) == c = BLOCK_TYPE_BOX \/ c = BLOCK_TYPE_BOX_AIM

\* a push test that only refuses walls
can_push_into_unless_wall(c) == c # BLOCK_TYPE_WALL

\* the test on the cell beyond the box: ground or aim
can_push_into(c) == c = BLOCK_TYPE_GROUND \/ c = BLOCK_TYPE_AIM

\* a plain step that forgets to put the covered type back
plain_step_leaves_marker(self, next_position, action) ==
    LET pt == at(self.map, next_position)
        m2 == put(self.map, next_position, get_player_type(action))
    IN  [self EXCEPT !.map = m2, !.position_type = pt,
                     !.position = next_position, !.update = TRUE]

\* a plain step that reads the covered type after drawing the player
plain_step_covers_marker(self, next_position, action) ==
    LET m1 == put(self.map, self.position, self.position_type)
        m2 == put(m1, next_position, get_player_type(action))
        pt == at(m2, next_position)
    IN  [self EXCEPT !.map = m2, !.position_type = pt,
                     !.position = next_position, !.update = TRUE]

\* the body of the first block of step(), statement by statement
plain_step(self, next_position, action) ==
    LET m1 == put(self.map, self.position, self.position_type)
        pt == at(m1, next_position)
        m2 == put(m1, next_position, get_player_type(action))
    IN  [self EXCEPT !.map = m2, !.position_type = pt,
                     !.position = next_position, !.update = TRUE]

\* a push that always takes the pushed box to have stood on ground
push_step_ground_under(self, next_position, next2_position, action) ==
    LET m1 == put(self.map, self.position, self.position_type)
        m2 == put(m1, next_position, get_player_type(action))
        m3 == IF at(m2, next2_position) = BLOCK_TYPE_GROUND
              THEN put(m2, next2_position, BLOCK_TYPE_BOX)
              ELSE put(m2, next2_position, BLOCK_TYPE_BOX_AIM)
    IN  [self EXCEPT !.map = m3, !.position_type = BLOCK_TYPE_GROUND,
                     !.position = next_position, !.update = TRUE]

\* the body of the push in the second block of step(), statement by statement
push_step(self, next_position, next2_position, action) ==
    LET m1 == put(self.map, self.position, self.position_type)
        pt == IF at(m1, next_position) = BLOCK_TYPE_BOX
              THEN BLOCK_TYPE_GROUND ELSE BLOCK_TYPE_AIM
        m2 == put(m1, next_position, get_player_type(action))
        m3 == IF at(m2, next2_position) = BLOCK_TYPE_GROUND
              THEN put(m2, next2_position, BLOCK_TYPE_BOX)
              ELSE put(m2, next2_position, BLOCK_TYPE_BOX_AIM)
    IN  [self EXCEPT !.map = m3, !.position_type = pt,
                     !.position = next_position, !.update = TRUE]

\* Game::step: the two blocks run one after the other on the same self;
\* next_position is computed once, before the first block
step(self, action) ==
    LET next_position == add(self.position, action)
    IN  IF ~in_range(next_position) THEN step_out_of_range(self, action)
        ELSE LET s1 == IF can_enter(at(self.map, next_position))
                       THEN plain_step(self, next_position, action)
                       ELSE self
                 next2_position == add(next_position, action)
             IN  IF is_box(at(s1.map, next_position))
                 THEN IF ~in_range(next2_position) THEN s1
                      ELSE IF can_push_into(at(s1.map, next2_position))
                           THEN push_step(s1, next_position, next2_position, action)
                           ELSE s1
                 ELSE s1

\* the scan of win(): rows i then columns j, false at the first plain box
RECURSIVE no_box_from(_, _)
no_box_from(map, k) ==
    IF k = MAP_SIZE * MAP_SIZE THEN TRUE
    ELSE IF map[k \div MAP_SIZE][k % MAP_SIZE] = BLOCK_TYPE_BOX THEN FALSE
         ELSE no_box_from(map, k + 1)

\* a wrap that compares with >= and so never reaches the last level
next_level_wraps_early(level) ==
    LET l == level + 1
    IN  IF l >= GAME_LEVEL_COUNT THEN 1 ELSE l

\* the bookkeeping of win() once the scan found no plain box
next_level(level) ==
    LET l == level + 1
    IN  IF l > GAME_LEVEL_COUNT THEN 1 ELSE l

\* a win that advances the level and forgets to ask for the reload
win_advance_keeps_status(self) ==
    [self EXCEPT !.level = next_level(self.level),
                 !.update = TRUE]

\* a win that wipes the grid before the next level is loaded
win_advance_clears_map(self) ==
    [self EXCEPT !.level = next_level(self.level),
                 !.update = TRUE,
                 !.status = "StartPlaying",
                 !.map = game_default.map]

win_advance(self) ==
    [self EXCEPT !.level = next_level(self.level),
                 !.update = TRUE,
                 !.status = "StartPlaying"]

\* a scan that also stops at a box standing on its target
RECURSIVE no_box_at_all_from(_, _)
no_box_at_all_from(map, k) ==
    IF k = MAP_SIZE * MAP_SIZE THEN TRUE
    ELSE IF map[k \div MAP_SIZE][k % MAP_SIZE] \in {BLOCK_TYPE_BOX, BLOCK_TYPE_BOX_AIM}
         THEN FALSE
         ELSE no_box_at_all_from(map, k + 1)

win_counts_boxes_on_target(self) ==
    IF no_box_at_all_from(self.map, 0)
    THEN [ret |-> TRUE, self |-> win_advance(self)]
    ELSE [ret |-> FALSE, self |-> self]

\* Game::win: the returned bool and the Game it leaves
win(self) ==
    IF no_box_from(self.map, 0)
    THEN [ret |-> TRUE, self |-> win_advance(self)]
    ELSE [ret |-> FALSE, self |-> self]

\* an update that steps whatever the status is
update_in_any_status(self) ==
    LET s == IF self.action # None
             THEN CASE self.action = "ArrowLeft" -> step(self, Vec2(-1, 0))
                    [] self.action = "ArrowRight" -> step(self, Vec2(1, 0))
                    [] self.action = "ArrowUp" -> step(self, Vec2(0, 1))
                    [] self.action = "ArrowDown" -> step(self, Vec2(0, -1))
                    [] OTHER -> self
             ELSE self
    IN  [s EXCEPT !.action = None]

\* an update in which the Next-level key skips to the next level
update_skips_on_next(self) ==
    IF self.status # "Playing" THEN self
    ELSE LET s == IF self.action # None
                  THEN CASE self.action = "ArrowLeft" -> step(self, Vec2(-1, 0))
                         [] self.action = "ArrowRight" -> step(self, Vec2(1, 0))
                         [] self.action = "ArrowUp" -> step(self, Vec2(0, 1))
                         [] self.action = "ArrowDown" -> step(self, Vec2(0, -1))
                         [] self.action = "KeyN" -> win_advance(self)
                         [] OTHER -> self
                  ELSE self
         IN  [s EXCEPT !.action = None]

\* Game::update
update(self) ==
    IF self.status # "Playing" THEN self
    ELSE LET s == IF self.action # None
                  THEN CASE self.action = "ArrowLeft" -> step(self, Vec2(-1, 0))
                         [] self.action = "ArrowRight" -> step(self, Vec2(1, 0))
                         [] self.action = "ArrowUp" -> step(self, Vec2(0, 1))
                         [] self.action = "ArrowDown" -> step(self, Vec2(0, -1))
                         [] OTHER -> self
                  ELSE self
         IN  [s EXCEPT !.action = None]

----------------------------------------------------------------------------
(* The button palette of menu_update, in thousandths of a pixel            *)

\* GAME_SCALE = 1., in thousandths
GAME_SCALE == 1000
BLOCK_SIZE == 30 * GAME_SCALE
GAME_MENU_WIDTH == 200 * GAME_SCALE
GAME_BUTTON_WIDTH == ((GAME_MENU_WIDTH \div 2) * 88) \div 100
GAME_BUTTON_HEIGHT == (GAME_BUTTON_WIDTH * 382) \div 1000
GAME_BUTTON_INTERVAL == ((GAME_MENU_WIDTH \div 2) - GAME_BUTTON_WIDTH) \div 3
\* the window keeps the program's 20 blocks of width whatever MAP_SIZE is here
GAME_WIDTH == BLOCK_SIZE * 20 + GAME_MENU_WIDTH
GAME_HEIGHT == BLOCK_SIZE * 20
GAME_MENU_TRANSFORM_X == (BLOCK_SIZE * 20) \div 2
GAME_MENU_TRANSFORM_Y == 0

BUTTON_POSITION ==
    << <<0 - (GAME_BUTTON_WIDTH \div 2) - (GAME_BUTTON_INTERVAL \div 2),
         2 * (GAME_BUTTON_HEIGHT + GAME_BUTTON_INTERVAL)>>,
       <<(GAME_BUTTON_WIDTH \div 2) + (GAME_BUTTON_INTERVAL \div 2),
         2 * (GAME_BUTTON_HEIGHT + GAME_BUTTON_INTERVAL)>>,
       <<0, GAME_BUTTON_HEIGHT + GAME_BUTTON_INTERVAL>>,
       <<0, (-1) * (GAME_BUTTON_HEIGHT + GAME_BUTTON_INTERVAL)>>,
       <<0 - (GAME_BUTTON_WIDTH \div 2) - (GAME_BUTTON_INTERVAL \div 2),
         (-2) * (GAME_BUTTON_HEIGHT + GAME_BUTTON_INTERVAL)>>,
       <<(GAME_BUTTON_WIDTH \div 2) + (GAME_BUTTON_INTERVAL \div 2),
         (-2) * (GAME_BUTTON_HEIGHT + GAME_BUTTON_INTERVAL)>>,
       <<0, (-3) * (GAME_BUTTON_HEIGHT + GAME_BUTTON_INTERVAL)>> >>

\* the hit test of menu_update for button i and a cursor in window coordinates
hit(i, cursor_position) ==
    LET cursor_x == cursor_position.x - (GAME_WIDTH \div 2)
        cursor_y == (GAME_HEIGHT \div 2) - cursor_position.y
        x0 == GAME_MENU_TRANSFORM_X + BUTTON_POSITION[i][1] - (GAME_BUTTON_WIDTH \div 2)
        x1 == GAME_MENU_TRANSFORM_X + BUTTON_POSITION[i][1] + (GAME_BUTTON_WIDTH \div 2)
        y0 == GAME_MENU_TRANSFORM_Y + BUTTON_POSITION[i][2] - (GAME_BUTTON_HEIGHT \div 2)
        y1 == GAME_MENU_TRANSFORM_Y + BUTTON_POSITION[i][2] + (GAME_BUTTON_HEIGHT \div 2)
    IN  cursor_x > x0 /\ cursor_x < x1 /\ cursor_y > y0 /\ cursor_y < y1

\* cursor positions tried: the middle of each button, a point of the board,
\* and a point of the menu strip between the buttons RESTART and UP
Cursors ==
    {Vec2((GAME_WIDTH \div 2) + GAME_MENU_TRANSFORM_X + BUTTON_POSITION[i][1],
          (GAME_HEIGHT \div 2) - (GAME_MENU_TRANSFORM_Y + BUTTON_POSITION[i][2])) : i \in 1..7}
    \cup {Vec2(100 * GAME_SCALE, 100 * GAME_SCALE),
          Vec2((GAME_WIDTH \div 2) + GAME_MENU_TRANSFORM_X, GAME_HEIGHT \div 2)}

\* what the mouse does in a frame: no press of the left button, a press with
\* the cursor outside the window (cursor_position() is None), or a press at
\* one of the cursor positions
MouseInputs ==
    {[pressed |-> FALSE, inside |-> FALSE, cursor |-> Vec2(0, 0)],
     [pressed |-> TRUE, inside |-> FALSE, cursor |-> Vec2(0, 0)]}
    \cup {[pressed |-> TRUE, inside |-> TRUE, cursor |-> c] : c \in Cursors}

\* what the keyboard holds down in a frame
\* (nothing, one key, or one of a few pairs of keys)
KeyInputs ==
    {{}} \cup {{k} : k \in KeyCodes}
    \cup {{"ArrowLeft", "ArrowRight"}, {"ArrowUp", "ArrowDown"},
          {"ArrowLeft", "ArrowUp"}, {"ArrowRight", "KeyR"}}

----------------------------------------------------------------------------
(* The systems                                                             *)

\* the loop of menu_update over the seven buttons, from button i on
RECURSIVE menu_buttons(_, _, _)
menu_buttons(gt, cursor_position, i) ==
    IF i > 7 THEN gt
    ELSE menu_buttons(
            IF hit(i, cursor_position)
            THEN [game |-> update([gt.game EXCEPT !.action = BUTTON_KEY[i]]),
                  timer |-> timer_reset(gt.timer)]
            ELSE gt,
            cursor_position, i + 1)

\* menu_update: the Game and the timer it leaves
menu_update(g, t, d, mouse) ==
    LET t1 == timer_tick(t, d)
    IN  IF ~t1.finished THEN [game |-> g, timer |-> t1]
        ELSE IF mouse.pressed /\ mouse.inside
             THEN menu_buttons([game |-> g, timer |-> t1], mouse.cursor, 1)
             ELSE [game |-> g, timer |-> t1]

\* the four tests of keyboard_input, in the order of the code
pressed_action(a, keys) ==
    LET a1 == IF "ArrowLeft" \in keys THEN "ArrowLeft" ELSE a
        a2 == IF "ArrowRight" \in keys THEN "ArrowRight" ELSE a1
        a3 == IF "ArrowUp" \in keys THEN "ArrowUp" ELSE a2
    IN  IF "ArrowDown" \in keys THEN "ArrowDown" ELSE a3

\* a keyboard handler that restarts the timer whenever it has run out, key
\* held or not
keyboard_input_resets_unheld(g, t, d, keys) ==
    LET t1 == timer_tick(t, d)
    IN  IF ~t1.finished THEN [game |-> g, timer |-> t1]
        ELSE IF keys \cap ArrowKeys # {}
             THEN [game |-> update([g EXCEPT !.action = pressed_action(g.action, keys)]),
                   timer |-> timer_reset(t1)]
             ELSE [game |-> g, timer |-> timer_reset(t1)]

\* keyboard_input: the Game and the timer it leaves
keyboard_input(g, t, d, keys) ==
    LET t1 == timer_tick(t, d)
    IN  IF ~t1.finished THEN [game |-> g, timer |-> t1]
        ELSE IF keys \cap ArrowKeys # {}
             THEN [game |-> update([g EXCEPT !.action = pressed_action(g.action, keys)]),
                   timer |-> timer_reset(t1)]
             ELSE [game |-> g, timer |-> t1]

\* an install that leaves the player position where it was
install_map_keeps_position(g, asset) ==
    [g EXCEPT !.map = asset.value, !.status = "Playing"]

\* the StartPlaying arm of game_update, with the asset present
install_map(g, asset) ==
    [g EXCEPT !.map = asset.value, !.position = asset.position, !.status = "Playing"]

\* a poll that gives up after the first look
poll_again_stalls(g) == g

\* the StartPlaying arm of game_update, with the asset absent: ask to be run
\* again on the next frame
poll_again(g) == [g EXCEPT !.update = TRUE]

\* game_update: the Game it leaves, the level whose map the MapHandle names
\* and whether that asset is present, and the arm taken
game_update(g, handle, present) ==
    IF ~g.update
    THEN [game |-> g, maphandle |-> handle, loaded |-> present, arm |-> "idle"]
    ELSE LET g1 == [g EXCEPT !.update = FALSE]
         IN  IF g1.status = "StartPlaying"
             THEN IF present
                  THEN [game |-> install_map(g1, MapAsset(handle)),
                        maphandle |-> handle, loaded |-> present, arm |-> "load"]
                  ELSE [game |-> poll_again(g1),
                        maphandle |-> handle, loaded |-> present, arm |-> "poll"]
             ELSE LET w == win(g1)
                  IN  IF ~w.ret
                      THEN [game |-> w.self, maphandle |-> handle,
                            loaded |-> present, arm |-> "redraw"]
                      ELSE [game |-> w.self, maphandle |-> w.self.level,
                            loaded |-> FALSE, arm |-> "win"]

----------------------------------------------------------------------------
(* The state machine: one frame runs the three systems once each, in the   *)
(* order of the schedule; the asset server finishes a load at any moment   *)

\* the key that Game::update hands to step() when a handler calls it with
\* this pending action: None when update() returns early or the key is no arrow
dispatched(g, key) ==
    IF g.status = "Playing" /\ key \in ArrowKeys THEN key ELSE None

\* the vector update() passes to step() for an arrow key
key_vector(key) ==
    CASE key = "ArrowLeft" -> Vec2(-1, 0)
      [] key = "ArrowRight" -> Vec2(1, 0)
      [] key = "ArrowUp" -> Vec2(0, 1)
      [] key = "ArrowDown" -> Vec2(0, -1)

\* the cell k steps away from the player along the key's vector before the
\* step, -1 outside the grid or when no step is made
cell_ahead(g, key, k) ==
    IF key = None THEN -1
    ELSE LET v == key_vector(key)
             p == Vec2(g.position.x + k * v.x, g.position.y + k * v.y)
         IN  IF in_range(p) THEN at(g.map, p) ELSE -1

\* the key codes of BUTTON_KEY that update() matches with no arm of its own
AuxKeys == KeyCodes \ ArrowKeys

\* the keyboard holds an auxiliary key and no direction key beside it
aux_held(keys) == keys \cap ArrowKeys = {} /\ keys \cap AuxKeys # {}

\* the button pressed, if any, is one of the auxiliary keys
aux_pressed(b) == b # 0 /\ BUTTON_KEY[b] \in AuxKeys

\* what the last transition did: the system that ran, whether the frame's
\* raw input held a direction key (keyboard) or a press inside a button
\* (mouse), whether it was an auxiliary key, the arrow key handed to step()
\* (None when no step was made), the cells one and two steps ahead of the
\* player before that step, and the arm game_update took
Observed(sys, g, raw, aux, key, arm) ==
    [sys |-> sys, raw |-> raw, aux |-> aux, key |-> key,
     c1 |-> cell_ahead(g, key, 1), c2 |-> cell_ahead(g, key, 2), arm |-> arm]

\* what is owed since the last win check: unchecked, a step has changed the
\* grid; zeroed, a step has left the grid without a plain box
no_history == [unchecked |-> FALSE, zeroed |-> FALSE]

after_handler(h, g, g2) ==
    IF g2.map # g.map
    THEN [unchecked |-> TRUE, zeroed |-> h.zeroed \/ no_box_from(g2.map, 0)]
    ELSE h

after_game_update(h, arm) ==
    IF arm \in {"redraw", "win"} THEN no_history ELSE h

\* the button a pressed cursor is inside, 0 when there is none
button_under(mouse) ==
    IF mouse.pressed /\ mouse.inside /\ \E i \in 1..7 : hit(i, mouse.cursor)
    THEN CHOOSE i \in 1..7 : hit(i, mouse.cursor)
    ELSE 0

Init ==
    /\ game = game_default
    /\ timer = timer_new
    /\ maphandle = 1
    /\ loaded = FALSE
    /\ delta \in Deltas
    /\ order \in Orders
    /\ pc = 1
    /\ since = INPUT_INTERVAL
    /\ last = Observed("startup", game_default, FALSE, FALSE, None, "none")
    /\ hist = no_history

MenuUpdate ==
    /\ pc <= 3
    /\ order[pc] = "menu_update"
    /\ \E mouse \in MouseInputs :
          LET r == menu_update(game, timer, delta, mouse)
              b == button_under(mouse)
              key == IF timer_tick(timer, delta).finished /\ b # 0
                     THEN dispatched(game, BUTTON_KEY[b]) ELSE None
          IN  /\ game' = r.game
              /\ timer' = r.timer
              /\ since' = IF key # None THEN 0 ELSE since
              /\ last' = Observed("menu_update", game, b # 0, aux_pressed(b), key, "none")
              /\ hist' = after_handler(hist, game, r.game)
    /\ pc' = pc + 1
    /\ UNCHANGED <<maphandle, loaded, delta, order>>

KeyboardInput ==
    /\ pc <= 3
    /\ order[pc] = "keyboard_input"
    /\ \E keys \in KeyInputs :
          LET r == keyboard_input(game, timer, delta, keys)
              key == IF timer_tick(timer, delta).finished /\ keys \cap ArrowKeys # {}
                     THEN dispatched(game, pressed_action(game.action, keys)) ELSE None
          IN  /\ game' = r.game
              /\ timer' = r.timer
              /\ since' = IF key # None THEN 0 ELSE since
              /\ last' = Observed("keyboard_input", game, keys \cap ArrowKeys # {},
                                   aux_held(keys), key, "none")
              /\ hist' = after_handler(hist, game, r.game)
    /\ pc' = pc + 1
    /\ UNCHANGED <<maphandle, loaded, delta, order>>

GameUpdate ==
    /\ pc <= 3
    /\ order[pc] = "game_update"
    /\ LET r == game_update(game, maphandle, loaded)
       IN  /\ game' = r.game
           /\ maphandle' = r.maphandle
           /\ loaded' = r.loaded
           /\ last' = Observed("game_update", game, FALSE, FALSE, None, r.arm)
           /\ hist' = after_game_update(hist, r.arm)
    /\ pc' = pc + 1
    /\ UNCHANGED <<timer, delta, order, since>>

\* the frame ends and the next begins, delta' being the time between them
EndFrame ==
    /\ pc = 4
    /\ pc' = 1
    /\ delta' \in Deltas
    /\ since' = IF since + delta' >= INPUT_INTERVAL THEN INPUT_INTERVAL ELSE since + delta'
    /\ last' = Observed("frame", game, FALSE, FALSE, None, "none")
    /\ UNCHANGED <<game, timer, maphandle, loaded, order, hist>>

\* the asset server finishes loading maps/<maphandle>.map; Assets<MapAsset>
\* is only written between two runs of the Update schedule
AssetLoaded ==
    /\ pc = 4
    /\ ~loaded
    /\ loaded' = TRUE
    /\ last' = Observed("asset_server", game, FALSE, FALSE, None, "none")
    /\ UNCHANGED <<game, timer, maphandle, delta, order, pc, since, hist>>

Next ==
    \/ MenuUpdate
    \/ GameUpdate
    \/ KeyboardInput
    \/ EndFrame
    \/ AssetLoaded

Spec == Init /\ [][Next]_vars

\* the app runs the Update schedule frame after frame: each system, and the
\* step to the next frame, is taken whenever it is its turn
FairSpec ==
    /\ Spec
    /\ WF_vars(MenuUpdate)
    /\ WF_vars(GameUpdate)
    /\ WF_vars(KeyboardInput)
    /\ WF_vars(EndFrame)

----------------------------------------------------------------------------
(* Vocabulary of the properties                                            *)

Floor == BLOCK_TYPE_GROUND
Target == BLOCK_TYPE_AIM
Box == BLOCK_TYPE_BOX
BoxOnTarget == BLOCK_TYPE_BOX_AIM
Wall == BLOCK_TYPE_WALL

Cells == {Vec2(xx, yy) : xx \in Idx, yy \in Idx}

InGrid(p) == p.x \in Idx /\ p.y \in Idx

\* the player marker the specification gives each direction
MarkerOf(key) ==
    CASE key = "ArrowLeft" -> 7
      [] key = "ArrowRight" -> 6
      [] key = "ArrowUp" -> 8
      [] key = "ArrowDown" -> 5

\* the cell entered by a step in direction key, and the cell beyond it
NextOf(g, key) == add(g.position, key_vector(key))
Next2Of(g, key) == add(NextOf(g, key), key_vector(key))

\* the transition is a handler calling step() with direction key
Stepped(key) == last'.key = key

\* every cell outside ps holds in g2 what it held in g1
SameOutside(g1, g2, ps) ==
    \A p \in Cells : p \notin ps => at(g2.map, p) = at(g1.map, p)

NoPlainBox(map) == \A p \in Cells : at(map, p) # Box

\* the last step entered a Floor or Target cell, or pushed a box into one
MovedLast ==
    /\ last.key # None
    /\ \/ last.c1 \in {Floor, Target}
       \/ last.c1 \in {Box, BoxOnTarget} /\ last.c2 \in {Floor, Target}

----------------------------------------------------------------------------
(* C1: after a step or push that moves the player in direction d, the cell *)
(* at the new position holds the marker of d: Left 7, Right 6, Up 8,       *)
(* Down 5.                                                                 *)
C1_MarkerOfDirection ==
    MovedLast => at(game.map, game.position) = MarkerOf(last.key)

(* C2: a step into an in-bounds Floor or Target cell moves the player      *)
(* there, restores the covered type in the vacated cell, remembers the     *)
(* entered cell's type as covered type, sets needs_redraw, and changes no  *)
(* cell other than the old and the new player cell.                        *)
C2_PlainStep ==
    [][\A key \in ArrowKeys :
          LET next == NextOf(game, key)
          IN  (Stepped(key) /\ InGrid(next) /\ at(game.map, next) \in {Floor, Target})
              => /\ game'.position = next
                 /\ at(game'.map, game.position) = game.position_type
                 /\ game'.position_type = at(game.map, next)
                 /\ game'.update = TRUE
                 /\ SameOutside(game, game', {game.position, next})]_vars

C2_Witness ==
    /\ last.key # None
    /\ last.c1 = Target
    /\ game.position_type = Target
    /\ game.update

(* C3: pushing a Box or Box-on-Target into an in-bounds Floor or Target    *)
(* cell moves the player onto the box's cell, restores the covered type    *)
(* behind, makes the cell beyond Box (was Floor) or Box-on-Target (was     *)
(* Target), sets covered type to Floor (plain Box pushed) or Target        *)
(* (Box-on-Target pushed), and changes no other cell.                      *)
C3_PushLaw ==
    [][\A key \in ArrowKeys :
          LET next == NextOf(game, key)
              next2 == Next2Of(game, key)
          IN  (/\ Stepped(key)
               /\ InGrid(next)
               /\ at(game.map, next) \in {Box, BoxOnTarget}
               /\ InGrid(next2)
               /\ at(game.map, next2) \in {Floor, Target})
              => /\ game'.position = next
                 /\ at(game'.map, game.position) = game.position_type
                 /\ at(game'.map, next) \in 5..8
                 /\ at(game'.map, next2) =
                        (IF at(game.map, next2) = Floor THEN Box ELSE BoxOnTarget)
                 /\ game'.position_type =
                        (IF at(game.map, next) = Box THEN Floor ELSE Target)
                 /\ SameOutside(game, game', {game.position, next, next2})]_vars

C3_Witness ==
    /\ last.key # None
    /\ last.c1 = BoxOnTarget
    /\ last.c2 = Target
    /\ game.position_type = Target

(* C4: when the cell entered holds a Box or Box-on-Target and the cell     *)
(* beyond is Wall, Box, Box-on-Target or out of bounds, step() changes     *)
(* nothing: grid, position, covered type and needs_redraw stay.            *)
C4_PushBlocked ==
    [][\A key \in ArrowKeys :
          LET next == NextOf(game, key)
              next2 == Next2Of(game, key)
          IN  (/\ Stepped(key)
               /\ InGrid(next)
               /\ at(game.map, next) \in {Box, BoxOnTarget}
               /\ (~InGrid(next2) \/ at(game.map, next2) \in {Wall, Box, BoxOnTarget}))
              => /\ game'.map = game.map
                 /\ game'.position = game.position
                 /\ game'.position_type = game.position_type
                 /\ game'.update = game.update]_vars

C4_Witness ==
    /\ last.key # None
    /\ last.c1 = Box
    /\ last.c2 = Box
    /\ game.level = GAME_LEVEL_COUNT

(* C5: a step whose target lies outside the grid on either axis changes    *)
(* nothing: grid, position and covered type stay.                          *)
C5_OutOfBounds ==
    [][\A key \in ArrowKeys :
          (Stepped(key) /\ ~InGrid(NextOf(game, key)))
          => /\ game'.map = game.map
             /\ game'.position = game.position
             /\ game'.position_type = game.position_type]_vars

C5_Witness ==
    /\ last.key # None
    /\ last.c1 = -1
    /\ game.position.x = MAP_SIZE - 1

(* C6: the win check returns true exactly when no cell of the grid is a    *)
(* plain Box, however many Box-on-Target, Floor or Target cells there are. *)
C6_WinIffNoPlainBox ==
    [][last'.arm \in {"redraw", "win"}
          => ((last'.arm = "win") <=> NoPlainBox(game.map))]_vars

C6_Witness ==
    /\ last.arm = "win"
    /\ \E p \in Cells : at(game.map, p) = BoxOnTarget
    /\ \E p \in Cells : at(game.map, p) = Floor
    /\ \E p \in Cells : at(game.map, p) = Target

(* C7: a win at level L makes the level L+1 when L < LEVEL_COUNT and 1     *)
(* when L = LEVEL_COUNT; from level 1 the level stays in 1..LEVEL_COUNT.   *)
C7_LevelWrap ==
    /\ game.level = 1
    /\ [][/\ game'.level \in 1..GAME_LEVEL_COUNT
          /\ last'.arm = "win"
                => game'.level = (IF game.level < GAME_LEVEL_COUNT
                                  THEN game.level + 1 ELSE 1)]_vars

C7_Witness ==
    /\ last.arm = "win"
    /\ game.level = 1
    /\ maphandle = 1

(* C8: at most one action is applied to the puzzle within any span shorter *)
(* than the 200 ms window: a step is applied only when at least the window *)
(* has passed since the step before it.                                    *)
C8_Debounce ==
    [][\A key \in ArrowKeys : Stepped(key) => since >= INPUT_INTERVAL]_vars

(* C9: right after every load the grid is the loaded grid, the position is *)
(* the loaded start position, and the covered type is Floor.               *)
C9_FreshAfterLoad ==
    last.arm = "load"
    => /\ game.map = MapAsset(game.level).value
       /\ game.position = MapAsset(game.level).position
       /\ game.position_type = Floor

(* C10: the game starts at level 1 in AwaitingLoad; the phase goes to      *)
(* Playing only on a game tick that finds the asset, and back to           *)
(* AwaitingLoad only on a game tick whose win check is true, together with *)
(* the level increment; the level changes at no other time; a tick without *)
(* the asset leaves phase and level alone.                                 *)
C10_PhaseTransitions ==
    /\ game.level = 1 /\ game.status = "StartPlaying"
    /\ [][/\ (game.status = "StartPlaying" /\ game'.status = "Playing")
                => /\ last'.sys = "game_update"
                   /\ loaded
                   /\ game'.level = game.level
          /\ (game.status = "Playing" /\ game'.status = "StartPlaying")
                => /\ last'.sys = "game_update"
                   /\ NoPlainBox(game.map)
                   /\ game'.level = (IF game.level < GAME_LEVEL_COUNT
                                     THEN game.level + 1 ELSE 1)
          /\ game'.level # game.level
                => (game.status = "Playing" /\ game'.status = "StartPlaying")
          /\ (last'.sys = "game_update" /\ game.status = "StartPlaying" /\ ~loaded)
                => (game'.status = "StartPlaying" /\ game'.level = game.level)]_vars

C10_Witness ==
    /\ last.arm = "load"
    /\ game.status = "Playing"
    /\ game.level = 2

\* the transition is one of the two input handlers
Handled == last'.sys \in {"menu_update", "keyboard_input"}

\* the grid, the player position and the covered type stay as they are
PuzzleUnchanged ==
    /\ game'.map = game.map
    /\ game'.position = game.position
    /\ game'.position_type = game.position_type

PlayerMarkers == {BLOCK_TYPE_PLAYER_DOWN, BLOCK_TYPE_PLAYER_RIGHT,
                  BLOCK_TYPE_PLAYER_LEFT, BLOCK_TYPE_PLAYER_UP}

CountOf(map, types) == Cardinality({p \in Cells : at(map, p) \in types})

\* the map file of the level holds one start cell and no other player marker
OneMarkerAsset(level) ==
    /\ CountOf(MapAsset(level).value, {BLOCK_TYPE_PLAYER_DOWN}) = 1
    /\ CountOf(MapAsset(level).value, PlayerMarkers) = 1

Boxes(g) == CountOf(g.map, {Box, BoxOnTarget})

TargetSurfaces(g) ==
    CountOf(g.map, {Target, BoxOnTarget})
      + (IF g.position_type = Target THEN 1 ELSE 0)

(* C11: while the phase is AwaitingLoad the load is tried again on every   *)
(* tick, needs_redraw being true in every state of that phase; once the    *)
(* asset is available the phase becomes Playing, the systems running frame *)
(* after frame; and the phase is never anything but AwaitingLoad or        *)
(* Playing.                                                                *)
C11_LoadPolling ==
    /\ [](game.status \in {"StartPlaying", "Playing"})
    /\ [](game.status = "StartPlaying" => game.update)
    /\ (game.status = "StartPlaying" /\ loaded) ~> (game.status = "Playing")

C11_Witness ==
    /\ last.arm = "poll"
    /\ game.status = "StartPlaying"
    /\ game.update
    /\ ~loaded
    /\ game.level = 2

(* C12: while the phase is AwaitingLoad and the asset is not available, no *)
(* transition changes the grid, the position or the covered type; and a    *)
(* handler changes them only in a frame whose own input holds a direction  *)
(* or a button press, in the phase Playing, so that an action left pending *)
(* during AwaitingLoad is never applied afterwards.                        *)
C12_NoStepWhileAwaitingLoad ==
    [][/\ (game.status = "StartPlaying" /\ ~loaded) => PuzzleUnchanged
       /\ (Handled /\ ~PuzzleUnchanged)
            => /\ game.status = "Playing"
               /\ last'.raw
               /\ last'.key \in ArrowKeys
               /\ game'.position = NextOf(game, last'.key)]_vars

C12_Witness ==
    /\ game.status = "Playing"
    /\ game.action \in ArrowKeys
    /\ last.arm = "load"

(* C13: a step that changed the grid is followed by a win check before any *)
(* further step changes the grid, whatever the order of the systems.       *)
C13_WinCheckBetweenSteps ==
    [][(Handled /\ last'.key # None /\ game'.map # game.map)
          => ~hist.unchecked]_vars

(* C14: when the level's map file holds exactly one Player-Down cell and   *)
(* no other player marker, then in the phase Playing exactly one cell of   *)
(* the grid holds a player marker, and it is the cell at position.         *)
C14_OnePlayerMarker ==
    (game.status = "Playing" /\ OneMarkerAsset(game.level))
      => \A p \in Cells :
            at(game.map, p) \in PlayerMarkers <=> p = game.position

C14_Witness ==
    /\ game.status = "Playing"
    /\ OneMarkerAsset(game.level)
    /\ MovedLast
    /\ last.c1 \in {Box, BoxOnTarget}
    /\ game.position # MapAsset(game.level).position

(* C15: the covered type is Floor or Target in every reachable state.      *)
C15_CoveredType ==
    game.position_type \in {Floor, Target}

C15_Witness ==
    /\ MovedLast
    /\ last.c1 = BoxOnTarget
    /\ game.position_type = Target

(* C16: the win check changes neither the grid, nor the position, nor the  *)
(* covered type, whether it finds the level won or not.                    *)
C16_WinCheckKeepsPuzzle ==
    [][(last'.sys = "game_update" /\ last'.arm \in {"redraw", "win"})
          => PuzzleUnchanged]_vars

C16_Witness ==
    /\ last.arm = "win"
    /\ game.status = "StartPlaying"
    /\ NoPlainBox(game.map)
    /\ at(game.map, game.position) \in PlayerMarkers

(* C17: when a step has left the grid without a plain Box in the phase     *)
(* Playing, the next game tick makes the phase AwaitingLoad, advances the  *)
(* level by one, wrapping, and asks for the map of the new level.          *)
C17_WinTaken ==
    [][(hist.zeroed /\ last'.sys = "game_update")
          => /\ game'.status = "StartPlaying"
             /\ game'.level = (IF game.level = GAME_LEVEL_COUNT
                               THEN 1 ELSE game.level + 1)
             /\ maphandle' = game'.level
             /\ ~loaded']_vars

(* C18: a step whose target cell is in bounds and holds Wall, blank or a   *)
(* player marker changes neither the grid, nor the position, nor the       *)
(* covered type, nor needs_redraw.                                         *)
C18_BlockedStep ==
    [][\A key \in ArrowKeys :
          LET next == NextOf(game, key)
          IN  (Stepped(key) /\ InGrid(next)
                 /\ at(game.map, next) \in {Wall, BLOCK_TYPE_BLANK} \cup PlayerMarkers)
              => /\ PuzzleUnchanged
                 /\ game'.update = game.update]_vars

C18_Witness ==
    /\ last.key # None
    /\ last.c1 \in PlayerMarkers
    /\ game.status = "Playing"

(* C19: a handler restarts the debounce timer only in a tick whose input   *)
(* holds a direction key or a press inside a button, and only when the     *)
(* timer, ticked, has run out; never on a tick without input or with a     *)
(* press outside the buttons, never while the timer is still running.      *)
C19_ResetOnlyOnAccept ==
    [][(Handled /\ timer'.elapsed = 0)
          => /\ last'.raw
             /\ (timer.finished \/ timer.elapsed + delta >= INPUT_INTERVAL)]_vars

C19_Witness ==
    /\ last.sys = "menu_update"
    /\ last.raw
    /\ last.key = None
    /\ timer.elapsed = 0
    /\ game.status = "Playing"

(* C20: every step keeps the number of boxes (Box and Box-on-Target) and   *)
(* the number of target surfaces (Target and Box-on-Target cells, plus one *)
(* when the covered type is Target); and right after a load the number of  *)
(* target surfaces is that of the loaded grid.                             *)
C20_Conservation ==
    [][/\ (Handled /\ last'.key # None)
            => /\ Boxes(game') = Boxes(game)
               /\ TargetSurfaces(game') = TargetSurfaces(game)
       /\ (last'.sys = "game_update" /\ last'.arm = "load")
            => TargetSurfaces(game')
                 = CountOf(MapAsset(maphandle).value, {Target, BoxOnTarget})]_vars

(* C21: a frame whose input is the Previous-level, Next-level or           *)
(* Restart-level key, held on the keyboard or pressed as a button, leaves  *)
(* the level, the phase, the grid, the position and the covered type as    *)
(* they were, in every state; and the level changes only in a game tick    *)
(* whose win check found the level won.                                    *)
C21_AuxiliaryKeysInert ==
    [][/\ (Handled /\ last'.aux)
            => /\ game'.level = game.level
               /\ game'.status = game.status
               /\ PuzzleUnchanged
       /\ (game'.level # game.level)
            => (last'.sys = "game_update" /\ last'.arm = "win")]_vars

C21_Witness ==
    /\ last.sys = "menu_update"
    /\ last.aux
    /\ game.status = "Playing"
    /\ timer.elapsed = 0
    /\ game.level = 2

====
